---- MODULE Spec2Model ----
(***************************************************************************)
(* Value types of the vCard property module (src/src/property.rs): the     *)
(* FromStr and Display implementations of UtcOffsetProperty, Gender, Sex   *)
(* and Kind, and the Display implementations of TextListProperty and       *)
(* DeliveryAddress; and the card assembler that reads the content lines of *)
(* a vCard stream, whose errors are those of src/src/error.rs.             *)
(*                                                                         *)
(* A Rust &str is modelled as the sequence of its UTF-8 bytes.  An ASCII   *)
(* byte is the one-character string of its character; the two bytes of the *)
(* character U+00E9 are written "C3" and "A9".                             *)
(***************************************************************************)
EXTENDS Integers, Sequences, FiniteSets, TLC

VARIABLES pc, text, result, value, shown, hourLimit, card, cards

vars == <<pc, text, result, value, shown, hourLimit, card, cards>>

(***************************************************************************)
(* Bounds of the checked input sets.                                       *)
(***************************************************************************)
MaxLen == 5
MaxGenderLen == 3
MaxIdentityLen == 3
MaxKindLen == 3
MaxItems == 2
MaxItemLen == 2
MaxFieldLen == 1
MaxLines == 7

(***************************************************************************)
(* Strings                                                                 *)
(***************************************************************************)
DigitChars == <<"0", "1", "2", "3", "4", "5", "6", "7", "8", "9">>

Digits == {DigitChars[i] : i \in 1..10}

DigitVal(c) == (CHOOSE i \in 1..10 : DigitChars[i] = c) - 1

\* The UTF-8 encoding of a character: U+00E9 takes two bytes.
EncodeChar(c) == IF c = "é" THEN <<"C3", "A9">> ELSE <<c>>

RECURSIVE Encode(_)
Encode(cs) == IF cs = <<>> THEN <<>> ELSE EncodeChar(Head(cs)) \o Encode(Tail(cs))

\* All character sequences of length 0..n over the alphabet A.
StringsUpTo(A, n) == UNION {[1..k -> A] : k \in 0..n}

\* str::is_char_boundary: index 0, index len, or a byte that does not
\* continue a multi-byte character.
is_char_boundary(s, i) ==
    \/ i = 0
    \/ i = Len(s)
    \/ (i > 0 /\ i < Len(s) /\ s[i + 1] # "A9")

\* &s[a..b] panics unless both ends are character boundaries.
SliceOk(s, a, b) == a <= b /\ b <= Len(s) /\ is_char_boundary(s, a) /\ is_char_boundary(s, b)

Slice(s, a, b) == SubSeq(s, a + 1, b)

\* i32::to_string for a non-negative number below 100.
to_string(n) ==
    IF n < 10 THEN <<DigitChars[n + 1]>>
    ELSE <<DigitChars[(n \div 10) + 1], DigitChars[(n % 10) + 1]>>

abs(n) == IF n < 0 THEN -n ELSE n

(***************************************************************************)
(* <i8 as FromStr>::from_str: an optional sign, then one or more digits,   *)
(* the value within -128..127.                                             *)
(***************************************************************************)
RECURSIVE DigitsValue(_, _)
DigitsValue(ds, acc) ==
    IF ds = <<>> THEN acc ELSE DigitsValue(Tail(ds), 10 * acc + DigitVal(Head(ds)))

parse_i8(src) ==
    IF src = <<>> THEN [ok |-> FALSE, kind |-> "Empty", val |-> 0]
    ELSE IF Len(src) = 1 /\ src[1] \in {"+", "-"}
    THEN [ok |-> FALSE, kind |-> "InvalidDigit", val |-> 0]
    ELSE LET signed == src[1] \in {"+", "-"}
             ds == IF signed THEN Tail(src) ELSE src
             mag == DigitsValue(ds, 0)
             n == IF src[1] = "-" THEN -mag ELSE mag
         IN IF \E i \in 1..Len(ds) : ds[i] \notin Digits
            THEN [ok |-> FALSE, kind |-> "InvalidDigit", val |-> 0]
            ELSE IF n > 127 THEN [ok |-> FALSE, kind |-> "PosOverflow", val |-> 0]
            ELSE IF n < -128 THEN [ok |-> FALSE, kind |-> "NegOverflow", val |-> 0]
            ELSE [ok |-> TRUE, kind |-> "", val |-> n]

(***************************************************************************)
(* time::UtcOffset                                                         *)
(***************************************************************************)
\* The largest hour a UtcOffset holds: 23 in the older 0.3 releases of the
\* time crate, 25 in the later ones.  The build picks one.
HourLimits == {23, 25}

ZeroOffset == [h |-> 0, m |-> 0, s |-> 0]

\* UtcOffset::from_hms: each component is range checked, then the smaller
\* components take the sign of the larger ones.
from_hms_wrapping(hours, minutes, seconds, limit) ==
    [ok |-> TRUE, name |-> "",
     value |-> [h |-> IF abs(hours) > limit THEN hours % (limit + 1) ELSE hours,
                m |-> IF abs(minutes) > 59 THEN minutes % 60 ELSE minutes,
                s |-> seconds]]

from_hms(hours, minutes, seconds, limit) ==
    IF hours < -limit \/ hours > limit
    THEN [ok |-> FALSE, name |-> "hours", value |-> ZeroOffset]
    ELSE IF minutes < -59 \/ minutes > 59
    THEN [ok |-> FALSE, name |-> "minutes", value |-> ZeroOffset]
    ELSE IF seconds < -59 \/ seconds > 59
    THEN [ok |-> FALSE, name |-> "seconds", value |-> ZeroOffset]
    ELSE LET m1 == IF (hours > 0 /\ minutes < 0) \/ (hours < 0 /\ minutes > 0)
                   THEN -minutes ELSE minutes
             s1 == IF \/ (hours > 0 /\ seconds < 0) \/ (hours < 0 /\ seconds > 0)
                      \/ (m1 > 0 /\ seconds < 0) \/ (m1 < 0 /\ seconds > 0)
                   THEN -seconds ELSE seconds
         IN [ok |-> TRUE, name |-> "", value |-> [h |-> hours, m |-> m1, s |-> s1]]

\* UtcOffset::as_hms
as_hms(v) == <<v.h, v.m, v.s>>

\* UtcOffset::whole_minutes
whole_minutes(v) == 60 * v.h + v.m

\* The offsets a UtcOffset can hold with zero seconds: all components of
\* one sign.
WholeMinuteOffsets(limit) ==
    {[h |-> h, m |-> m, s |-> 0] : h \in 0..limit, m \in 0..59}
    \cup {[h |-> -h, m |-> -m, s |-> 0] : h \in 0..limit, m \in 0..59}

(***************************************************************************)
(* UtcOffsetProperty                                                       *)
(***************************************************************************)
UtcOk(v) ==
    [tag |-> "Ok", err |-> "", detail |-> "", payload |-> <<>>,
     value |-> v, group |-> "None", parameters |-> "None"]

UtcErr(e, d, p) ==
    [tag |-> "Err", err |-> e, detail |-> d, payload |-> p,
     value |-> ZeroOffset, group |-> "None", parameters |-> "None"]

UtcPanic ==
    [tag |-> "Panic", err |-> "", detail |-> "", payload |-> <<>>,
     value |-> ZeroOffset, group |-> "None", parameters |-> "None"]

UtcNone ==
    [tag |-> "", err |-> "", detail |-> "", payload |-> <<>>,
     value |-> ZeroOffset, group |-> "None", parameters |-> "None"]

\* impl Display for UtcOffsetProperty
UtcOffsetDisplay(v) ==
    LET h == as_hms(v)[1]
        m == as_hms(v)[2]
        sign == IF h >= 0 THEN "+" ELSE "-"
        hs == IF abs(h) < 10 THEN <<"0">> \o to_string(abs(h)) ELSE to_string(abs(h))
        ms == IF abs(m) < 10 THEN <<"0">> \o to_string(abs(m)) ELSE to_string(abs(m))
    IN <<sign>> \o hs \o ms

\* The negation of both fields under a '-' sign (from_str, lines 335-338).
negate_hours_only(sign, hours, minutes) ==
    IF sign = <<"-">> THEN <<-hours, minutes>> ELSE <<hours, minutes>>

negate(sign, hours, minutes) ==
    IF sign = <<"-">> THEN <<-hours, -minutes>> ELSE <<hours, minutes>>

\* impl FromStr for UtcOffsetProperty
UtcOffsetFromStr(s, limit) ==
    IF Len(s) = 5
    THEN IF ~SliceOk(s, 0, 1) THEN UtcPanic
         ELSE LET sign == Slice(s, 0, 1)
              IN IF sign # <<"+">> /\ sign # <<"-">>
                 THEN UtcErr("InvalidUtcOffset", "", s)
                 ELSE IF ~SliceOk(s, 1, 3) \/ ~SliceOk(s, 3, 5) THEN UtcPanic
                 ELSE LET hours == parse_i8(Slice(s, 1, 3))
                          minutes == parse_i8(Slice(s, 3, 5))
                      IN IF ~hours.ok THEN UtcErr("ParseInt", hours.kind, <<>>)
                         ELSE IF ~minutes.ok THEN UtcErr("ParseInt", minutes.kind, <<>>)
                         ELSE LET hm == negate(sign, hours.val, minutes.val)
                                  off == from_hms(hm[1], hm[2], 0, limit)
                              IN IF off.ok THEN UtcOk(off.value)
                                 ELSE UtcErr("ComponentRange", off.name, <<>>)
    ELSE UtcErr("InvalidUtcOffset", "", s)

(***************************************************************************)
(* Inputs of the UTC offset checks.                                        *)
(***************************************************************************)
UtcAlphabet == {"+", "-", "0", "5", "x", "é"}

\* Every string of at most MaxLen characters over the small alphabet.
UtcShortInputs == {Encode(cs) : cs \in StringsUpTo(UtcAlphabet, MaxLen)}

\* Every five-byte string of a sign and four digit-or-sign characters.
UtcFieldInputs ==
    {<<a, b, c, d, e>> : a \in {"+", "-"}, b \in Digits \cup {"+", "-"},
                         c \in Digits \cup {"+", "-"}, d \in Digits \cup {"+", "-"},
                         e \in Digits \cup {"+", "-"}}

UtcInputs == UtcShortInputs \cup UtcFieldInputs

(***************************************************************************)
(* UTC offset: parse a string and print the parsed property, or print a    *)
(* property.                                                               *)
(***************************************************************************)
UtcInit ==
    /\ hourLimit \in HourLimits
    /\ card = <<>>
    /\ cards = <<>>
    /\ \/ pc = "text" /\ text \in UtcInputs /\ value = ZeroOffset
       \/ pc = "value" /\ text = <<>> /\ value \in WholeMinuteOffsets(hourLimit)
    /\ result = UtcNone
    /\ shown = <<>>

\* s.parse::<UtcOffsetProperty>()
UtcParse ==
    /\ pc = "text"
    /\ result' = UtcOffsetFromStr(text, hourLimit)
    /\ pc' = "parsed"
    /\ UNCHANGED <<text, value, shown, hourLimit, card, cards>>

\* to_string() of the parsed property
UtcShowParsed ==
    /\ pc = "parsed"
    /\ result.tag = "Ok"
    /\ value' = result.value
    /\ shown' = UtcOffsetDisplay(result.value)
    /\ pc' = "printed"
    /\ UNCHANGED <<text, result, hourLimit, card, cards>>

\* to_string() of a property
UtcShowValue ==
    /\ pc = "value"
    /\ shown' = UtcOffsetDisplay(value)
    /\ pc' = "shown"
    /\ UNCHANGED <<text, result, value, hourLimit, card, cards>>

UtcNext == UtcParse \/ UtcShowParsed \/ UtcShowValue

SpecUtc == UtcInit /\ [][UtcNext]_vars

(***************************************************************************)
(* Properties of the UTC offset parser and printer.                        *)
(***************************************************************************)
\* The pattern [+-]\d{2}\d{2}.
MatchesOffsetPattern(s) ==
    /\ Len(s) = 5
    /\ s[1] \in {"+", "-"}
    /\ \A i \in 2..5 : s[i] \in Digits

\* The two-digit field starting at byte i (1-based).
FieldValue(s, i) == 10 * DigitVal(s[i]) + DigitVal(s[i + 1])

\* C1: from_str accepts a string if and only if it matches [+-]\d{2}\d{2};
\* every other input returns an error.
C1_AcceptsExactlyPattern ==
    pc = "parsed" =>
        /\ (result.tag = "Ok") <=> MatchesOffsetPattern(text)
        /\ ~MatchesOffsetPattern(text) => result.tag = "Err"

\* C2: for every string that from_str accepts, to_string of the parsed value
\* returns exactly that string.
C2_ParsePrintRoundTrip ==
    pc = "printed" => shown = text

\* The five characters of an offset: '-' exactly when it is negative, the
\* absolute hours and the absolute minutes, each zero-padded to two digits.
OffsetText(v) ==
    LET total == whole_minutes(v)
        a == abs(total)
        hh == a \div 60
        mm == a % 60
    IN <<IF total < 0 THEN "-" ELSE "+",
         DigitChars[(hh \div 10) + 1], DigitChars[(hh % 10) + 1],
         DigitChars[(mm \div 10) + 1], DigitChars[(mm % 10) + 1]>>

\* C3: Display of a whole-minute offset is the sign ('-' exactly when the
\* offset is negative), then two-digit hours, then two-digit minutes.
C3_DisplayFormat ==
    pc = "shown" => shown = OffsetText(value)

C5_RejectsOutOfRange ==
    pc = "parsed" =>
        ((MatchesOffsetPattern(text) /\ (FieldValue(text, 2) >= 26 \/ FieldValue(text, 4) >= 60))
            => result.tag = "Err")

C5_Witness ==
    /\ pc = "parsed"
    /\ text = <<"+", "4", "4", "0", "0">>
    /\ result.tag = "Err"
    /\ result.err = "ComponentRange"

(***************************************************************************)
(* Sex and Gender                                                          *)
(***************************************************************************)
Sexes == {"None", "Male", "Female", "Other", "NotApplicable", "Unknown"}

\* Option<String>
NoneStr == [some |-> FALSE, str |-> <<>>]

SomeStr(s) == [some |-> TRUE, str |-> s]

NoGender == [sex |-> "None", identity |-> NoneStr]

GenderOk(g) == [tag |-> "Ok", err |-> "", payload |-> <<>>, value |-> g]

GenderErr(e, p) == [tag |-> "Err", err |-> e, payload |-> p, value |-> NoGender]

GenderNoResult == [tag |-> "", err |-> "", payload |-> <<>>, value |-> NoGender]

\* impl Display for Sex
SexDisplay(sex) ==
    CASE sex = "None" -> <<>>
      [] sex = "Male" -> <<"M">>
      [] sex = "Female" -> <<"F">>
      [] sex = "Other" -> <<"O">>
      [] sex = "NotApplicable" -> <<"N">>
      [] sex = "Unknown" -> <<"U">>

\* impl FromStr for Sex
SexFromStr_lowercase(s) ==
    CASE s = <<>> -> [ok |-> TRUE, sex |-> "None", err |-> "", payload |-> <<>>]
      [] s = <<"M">> \/ s = <<"m">> -> [ok |-> TRUE, sex |-> "Male", err |-> "", payload |-> <<>>]
      [] s = <<"F">> -> [ok |-> TRUE, sex |-> "Female", err |-> "", payload |-> <<>>]
      [] s = <<"O">> -> [ok |-> TRUE, sex |-> "Other", err |-> "", payload |-> <<>>]
      [] s = <<"N">> -> [ok |-> TRUE, sex |-> "NotApplicable", err |-> "", payload |-> <<>>]
      [] s = <<"U">> -> [ok |-> TRUE, sex |-> "Unknown", err |-> "", payload |-> <<>>]
      [] OTHER -> [ok |-> FALSE, sex |-> "None", err |-> "UnknownSex", payload |-> s]

SexFromStr(s) ==
    CASE s = <<>> -> [ok |-> TRUE, sex |-> "None", err |-> "", payload |-> <<>>]
      [] s = <<"M">> -> [ok |-> TRUE, sex |-> "Male", err |-> "", payload |-> <<>>]
      [] s = <<"F">> -> [ok |-> TRUE, sex |-> "Female", err |-> "", payload |-> <<>>]
      [] s = <<"O">> -> [ok |-> TRUE, sex |-> "Other", err |-> "", payload |-> <<>>]
      [] s = <<"N">> -> [ok |-> TRUE, sex |-> "NotApplicable", err |-> "", payload |-> <<>>]
      [] s = <<"U">> -> [ok |-> TRUE, sex |-> "Unknown", err |-> "", payload |-> <<>>]
      [] OTHER -> [ok |-> FALSE, sex |-> "None", err |-> "UnknownSex", payload |-> s]

\* str::split(";") collected: the pieces between every two separators.
RECURSIVE split(_, _)
split(s, sep) ==
    IF \A i \in 1..Len(s) : s[i] # sep THEN <<s>>
    ELSE LET k == CHOOSE i \in 1..Len(s) : s[i] = sep /\ \A j \in 1..(i - 1) : s[j] # sep
         IN <<SubSeq(s, 1, k - 1)>> \o split(SubSeq(s, k + 1, Len(s)), sep)

\* str::splitn(2, ";") collected: the text before the first separator and,
\* when there is a separator, all the text after it.
splitn2(s, sep) ==
    IF \A i \in 1..Len(s) : s[i] # sep THEN <<s>>
    ELSE LET k == CHOOSE i \in 1..Len(s) : s[i] = sep /\ \A j \in 1..(i - 1) : s[j] # sep
         IN <<SubSeq(s, 1, k - 1), SubSeq(s, k + 1, Len(s))>>

\* impl Display for Gender
GenderDisplay(g) ==
    IF g.identity.some THEN SexDisplay(g.sex) \o <<";">> \o g.identity.str
    ELSE SexDisplay(g.sex)

\* impl FromStr for Gender
GenderFromStr(s) ==
    IF s = <<>> THEN GenderOk([sex |-> "None", identity |-> NoneStr])
    ELSE LET it == splitn2(s, ";")
         IN IF Len(it) = 0 THEN GenderErr("NoSex", <<>>)
            ELSE LET sex == SexFromStr(it[1])
                 IN IF ~sex.ok THEN GenderErr(sex.err, sex.payload)
                    ELSE GenderOk([sex |-> sex.sex,
                                   identity |-> IF Len(it) >= 2 THEN SomeStr(it[2]) ELSE NoneStr])

GenderAlphabet == {"M", "F", "O", "N", "U", "m", ";", "x"}

GenderInputs == StringsUpTo(GenderAlphabet, MaxGenderLen)

IdentityAlphabet == {";", "x", "M"}

Genders ==
    {[sex |-> sex, identity |-> id] :
        sex \in Sexes,
        id \in {NoneStr} \cup {SomeStr(s) : s \in StringsUpTo(IdentityAlphabet, MaxIdentityLen)}}

(***************************************************************************)
(* Gender: parse a string and print the parsed value, or print a value and *)
(* parse the printed text.                                                 *)
(***************************************************************************)
GenderInit ==
    /\ hourLimit = 0
    /\ card = <<>>
    /\ cards = <<>>
    /\ \/ pc = "text" /\ text \in GenderInputs /\ value = NoGender
       \/ pc = "value" /\ text = <<>> /\ value \in Genders
    /\ result = GenderNoResult
    /\ shown = <<>>

\* s.parse::<Gender>()
GenderParse ==
    /\ pc = "text"
    /\ result' = GenderFromStr(text)
    /\ pc' = "parsed"
    /\ UNCHANGED <<text, value, shown, hourLimit, card, cards>>

\* to_string() of the parsed gender
GenderShowParsed ==
    /\ pc = "parsed"
    /\ result.tag = "Ok"
    /\ value' = result.value
    /\ shown' = GenderDisplay(result.value)
    /\ pc' = "printed"
    /\ UNCHANGED <<text, result, hourLimit, card, cards>>

\* g.to_string()
GenderShowValue ==
    /\ pc = "value"
    /\ shown' = GenderDisplay(value)
    /\ pc' = "shown"
    /\ UNCHANGED <<text, result, value, hourLimit, card, cards>>

\* g.to_string().parse::<Gender>()
GenderReparse ==
    /\ pc = "shown"
    /\ result' = GenderFromStr(shown)
    /\ pc' = "reparsed"
    /\ UNCHANGED <<text, value, shown, hourLimit, card, cards>>

GenderNext == GenderParse \/ GenderShowParsed \/ GenderShowValue \/ GenderReparse

SpecGender == GenderInit /\ [][GenderNext]_vars

(***************************************************************************)
(* Properties of the gender parser and printer.                            *)
(***************************************************************************)
SexTokens == {<<>>, <<"M">>, <<"F">>, <<"O">>, <<"N">>, <<"U">>}

\* The part of s before its first ';' (all of s when it has none).
RECURSIVE SexPart(_)
SexPart(s) ==
    IF s = <<>> \/ Head(s) = ";" THEN <<>> ELSE <<Head(s)>> \o SexPart(Tail(s))

\* C8: Gender::from_str succeeds if and only if the part before the first
\* ';' is one of "", M, F, O, N, U; an empty sex yields Sex::None; every
\* other input fails with UnknownSex carrying the sex part; NoSex is never
\* returned.
C8_GenderAcceptance ==
    pc = "parsed" =>
        /\ (result.tag = "Ok") <=> (SexPart(text) \in SexTokens)
        /\ (SexPart(text) = <<>>) => (result.tag = "Ok" /\ result.value.sex = "None")
        /\ (SexPart(text) \notin SexTokens) =>
              (result.tag = "Err" /\ result.err = "UnknownSex" /\ result.payload = SexPart(text))
        /\ result.err # "NoSex"

C8_Witness ==
    /\ pc = "parsed"
    /\ text = <<"m", ";", "x">>
    /\ result.tag = "Err"
    /\ result.payload = <<"m">>

\* C9: for every Gender g, from_str(g.to_string()) succeeds and equals g;
\* for every string accepted by from_str, the parsed value prints back to
\* exactly that string.
C9_GenderRoundTrip ==
    /\ pc = "reparsed" => (result.tag = "Ok" /\ result.value = value)
    /\ pc = "printed" => shown = text

C9_Witness ==
    /\ pc = "reparsed"
    /\ value = [sex |-> "None", identity |-> SomeStr(<<"x", ";", "x">>)]
    /\ shown = <<";", "x", ";", "x">>
    /\ result.value = value

(***************************************************************************)
(* Kind                                                                    *)
(***************************************************************************)
Kinds == {"Individual", "Group", "Org", "Location"}

KindOk(k) == [tag |-> "Ok", err |-> "", payload |-> <<>>, value |-> k]

KindErr(e, p) == [tag |-> "Err", err |-> e, payload |-> p, value |-> ""]

KindNoResult == [tag |-> "", err |-> "", payload |-> <<>>, value |-> ""]

LowerLetters ==
    <<"a", "b", "c", "d", "e", "f", "g", "h", "i", "j", "k", "l", "m",
      "n", "o", "p", "q", "r", "s", "t", "u", "v", "w", "x", "y", "z">>

UpperLetters ==
    <<"A", "B", "C", "D", "E", "F", "G", "H", "I", "J", "K", "L", "M",
      "N", "O", "P", "Q", "R", "S", "T", "U", "V", "W", "X", "Y", "Z">>

\* char::to_ascii_uppercase / to_ascii_lowercase
to_ascii_uppercase(c) ==
    IF \E i \in 1..26 : LowerLetters[i] = c
    THEN UpperLetters[CHOOSE i \in 1..26 : LowerLetters[i] = c] ELSE c

to_ascii_lowercase(c) ==
    IF \E i \in 1..26 : UpperLetters[i] = c
    THEN LowerLetters[CHOOSE i \in 1..26 : UpperLetters[i] = c] ELSE c

\* impl Display for Kind
KindDisplay(k) ==
    CASE k = "Individual" -> <<"i", "n", "d", "i", "v", "i", "d", "u", "a", "l">>
      [] k = "Group" -> <<"g", "r", "o", "u", "p">>
      [] k = "Org" -> <<"o", "r", "g">>
      [] k = "Location" -> <<"l", "o", "c", "a", "t", "i", "o", "n">>

\* impl FromStr for Kind
KindFromStr_ignore_case(s) ==
    LET l == [i \in 1..Len(s) |-> to_ascii_lowercase(s[i])]
    IN CASE l = <<"i", "n", "d", "i", "v", "i", "d", "u", "a", "l">> -> KindOk("Individual")
         [] l = <<"g", "r", "o", "u", "p">> -> KindOk("Group")
         [] l = <<"o", "r", "g">> -> KindOk("Org")
         [] l = <<"l", "o", "c", "a", "t", "i", "o", "n">> -> KindOk("Location")
         [] OTHER -> KindErr("UnknownKind", s)

KindFromStr(s) ==
    CASE s = <<"i", "n", "d", "i", "v", "i", "d", "u", "a", "l">> -> KindOk("Individual")
      [] s = <<"g", "r", "o", "u", "p">> -> KindOk("Group")
      [] s = <<"o", "r", "g">> -> KindOk("Org")
      [] s = <<"l", "o", "c", "a", "t", "i", "o", "n">> -> KindOk("Location")
      [] OTHER -> KindErr("UnknownKind", s)

\* The inputs: each token, each token with one letter in upper case, all in
\* upper case, cut short, or with one more character, and every short string.
KindTokens == {KindDisplay(k) : k \in Kinds}

KindAlphabet == {"o", "r", "g", "G", "x"}

KindInputs ==
    KindTokens
    \cup {[i \in 1..Len(tok) |-> IF i = k THEN to_ascii_uppercase(tok[i]) ELSE tok[i]] :
             tok \in KindTokens, k \in 1..10}
    \cup {[i \in 1..Len(tok) |-> to_ascii_uppercase(tok[i])] : tok \in KindTokens}
    \cup UNION {{SubSeq(tok, 1, k) : k \in 0..(Len(tok) - 1)} : tok \in KindTokens}
    \cup {tok \o <<c>> : tok \in KindTokens, c \in KindAlphabet}
    \cup StringsUpTo(KindAlphabet, MaxKindLen)

(***************************************************************************)
(* Kind: parse a string and print the parsed value, or print a value and   *)
(* parse the printed text.                                                 *)
(***************************************************************************)
KindInit ==
    /\ hourLimit = 0
    /\ card = <<>>
    /\ cards = <<>>
    /\ \/ pc = "text" /\ text \in KindInputs /\ value = ""
       \/ pc = "value" /\ text = <<>> /\ value \in Kinds
    /\ result = KindNoResult
    /\ shown = <<>>

\* s.parse::<Kind>()
KindParse ==
    /\ pc = "text"
    /\ result' = KindFromStr(text)
    /\ pc' = "parsed"
    /\ UNCHANGED <<text, value, shown, hourLimit, card, cards>>

\* to_string() of the parsed kind
KindShowParsed ==
    /\ pc = "parsed"
    /\ result.tag = "Ok"
    /\ value' = result.value
    /\ shown' = KindDisplay(result.value)
    /\ pc' = "printed"
    /\ UNCHANGED <<text, result, hourLimit, card, cards>>

\* k.to_string()
KindShowValue ==
    /\ pc = "value"
    /\ shown' = KindDisplay(value)
    /\ pc' = "shown"
    /\ UNCHANGED <<text, result, value, hourLimit, card, cards>>

\* k.to_string().parse::<Kind>()
KindReparse ==
    /\ pc = "shown"
    /\ result' = KindFromStr(shown)
    /\ pc' = "reparsed"
    /\ UNCHANGED <<text, value, shown, hourLimit, card, cards>>

KindNext == KindParse \/ KindShowParsed \/ KindShowValue \/ KindReparse

SpecKind == KindInit /\ [][KindNext]_vars

\* The four lowercase tokens of the KIND property.
LowercaseKindTokens ==
    {<<"i", "n", "d", "i", "v", "i", "d", "u", "a", "l">>, <<"g", "r", "o", "u", "p">>,
     <<"o", "r", "g">>, <<"l", "o", "c", "a", "t", "i", "o", "n">>}

\* C10: Kind::from_str succeeds exactly on "individual", "group", "org",
\* "location" (case-sensitive); any other string fails with UnknownKind
\* carrying that string; and Kind::from_str(k.to_string()) equals k.
C10_KindTokens ==
    /\ pc = "parsed" =>
          /\ (result.tag = "Ok") <=> (text \in LowercaseKindTokens)
          /\ (text \notin LowercaseKindTokens) =>
                (result.tag = "Err" /\ result.err = "UnknownKind" /\ result.payload = text)
    /\ pc = "reparsed" => (result.tag = "Ok" /\ result.value = value)

C10_Witness ==
    /\ pc = "parsed"
    /\ text = <<"G", "r", "o", "u", "p">>
    /\ result.tag = "Err"
    /\ result.err = "UnknownKind"
    /\ result.payload = text

(***************************************************************************)
(* TextListProperty                                                        *)
(***************************************************************************)
\* [String]::join(sep)
RECURSIVE join(_, _)
join(list, sep) ==
    IF list = <<>> THEN <<>>
    ELSE IF Len(list) = 1 THEN list[1]
    ELSE list[1] \o <<sep>> \o join(Tail(list), sep)

\* impl Display for TextListProperty
TextListDisplay(list) == join(list, ",")

TextAlphabet == {"a", ",", ";", "\\", "\n"}

TextLists ==
    UNION {[1..k -> StringsUpTo(TextAlphabet, MaxItemLen)] : k \in 0..MaxItems}

TextListInit ==
    /\ hourLimit = 0
    /\ card = <<>>
    /\ cards = <<>>
    /\ pc = "value"
    /\ text = <<>>
    /\ value \in TextLists
    /\ result = <<>>
    /\ shown = <<>>

\* list.to_string()
TextListShow ==
    /\ pc = "value"
    /\ shown' = TextListDisplay(value)
    /\ pc' = "shown"
    /\ UNCHANGED <<text, result, value, hourLimit, card, cards>>

TextListNext == TextListShow

SpecTextList == TextListInit /\ [][TextListNext]_vars

\* A text value with backslash, comma, semicolon and newline written as
\* \\, \,, \; and \n.
RECURSIVE EscapedText(_)
EscapedText(s) ==
    IF s = <<>> THEN <<>>
    ELSE (CASE Head(s) = "\\" -> <<"\\", "\\">>
            [] Head(s) = "," -> <<"\\", ",">>
            [] Head(s) = ";" -> <<"\\", ";">>
            [] Head(s) = "\n" -> <<"\\", "n">>
            [] OTHER -> <<Head(s)>>) \o EscapedText(Tail(s))

\* The elements of a rendered text list: the text is cut at every comma that
\* no backslash escapes, and each piece is unescaped.  cur is the element
\* read so far.
RECURSIVE SplitUnescaped(_, _)
SplitUnescaped(s, cur) ==
    IF s = <<>> THEN <<cur>>
    ELSE IF Head(s) = "\\" /\ Len(s) >= 2
    THEN SplitUnescaped(Tail(Tail(s)), cur \o <<IF s[2] = "n" THEN "\n" ELSE s[2]>>)
    ELSE IF Head(s) = "," THEN <<cur>> \o SplitUnescaped(Tail(s), <<>>)
    ELSE SplitUnescaped(Tail(s), cur \o <<Head(s)>>)

\* C6: Display of a text list is its elements in order, each escaped, joined
\* by ','; splitting the rendered text on unescaped commas and unescaping
\* yields the original list.
C6_TextListEscaped ==
    (pc = "shown" /\ value # <<>>) =>
        /\ shown = join([i \in 1..Len(value) |-> EscapedText(value[i])], ",")
        /\ SplitUnescaped(shown, <<>>) = value

(***************************************************************************)
(* DeliveryAddress                                                         *)
(***************************************************************************)
AddressFields ==
    <<"po_box", "extended_address", "street_address", "locality", "region",
      "postal_code", "country_name">>

\* self.field.as_ref().map(|s| &s[..]).unwrap_or_else(|| "")
unwrap_or_empty(field) == IF field.some THEN field.str ELSE <<>>

\* impl Display for DeliveryAddress
DeliveryAddressDisplay(a) ==
    unwrap_or_empty(a.po_box) \o <<";">> \o
    unwrap_or_empty(a.extended_address) \o <<";">> \o
    unwrap_or_empty(a.street_address) \o <<";">> \o
    unwrap_or_empty(a.locality) \o <<";">> \o
    unwrap_or_empty(a.region) \o <<";">> \o
    unwrap_or_empty(a.postal_code) \o <<";">> \o
    unwrap_or_empty(a.country_name)

AddressAlphabet == {"a", ";"}

AddressFieldValues ==
    {NoneStr} \cup {SomeStr(s) : s \in StringsUpTo(AddressAlphabet, MaxFieldLen)}

DeliveryAddresses ==
    [{AddressFields[i] : i \in 1..7} -> AddressFieldValues]

AddressInit ==
    /\ hourLimit = 0
    /\ card = <<>>
    /\ cards = <<>>
    /\ pc = "value"
    /\ text = <<>>
    /\ value \in DeliveryAddresses
    /\ result = <<>>
    /\ shown = <<>>

\* address.to_string()
AddressShow ==
    /\ pc = "value"
    /\ shown' = DeliveryAddressDisplay(value)
    /\ pc' = "shown"
    /\ UNCHANGED <<text, result, value, hourLimit, card, cards>>

AddressNext == AddressShow

SpecAddress == AddressInit /\ [][AddressNext]_vars

\* C7: Display of a delivery address is its 7 fields in order separated by
\* ';', an absent field as the empty string; splitting the output on ';'
\* yields exactly those 7 fields, whatever the fields contain.
C7_AddressSevenFields ==
    pc = "shown" =>
        split(shown, ";") = [i \in 1..7 |-> unwrap_or_empty(value[AddressFields[i]])]

(***************************************************************************)
(* Card assembler.  The input is a sequence of logical lines; a line is    *)
(* the name and value of its property, the blank line has neither.  The    *)
(* assembler reads one line at a time: text holds the lines read so far,   *)
(* pc the assembler state, card the properties of the card in progress     *)
(* (kept on failure), cards the cards emitted.  Blank lines are offered    *)
(* between cards only.                                                     *)
(***************************************************************************)
Line(n, v) == [name |-> n, value |-> v]

BlankLine == Line("", "")

BeginLine == Line("BEGIN", "VCARD")

EndLine == Line("END", "VCARD")

VersionLine == Line("VERSION", "4.0")

CardLines ==
    {BeginLine, EndLine, VersionLine, Line("VERSION", "3.0"), Line("FN", "x"),
     Line("KIND", "group"), Line("KIND", "individual"), Line("MEMBER", "urn:uuid:abc")}

\* The properties that may appear at most once in a card.
AtMostOnceNames ==
    {"KIND", "N", "BDAY", "ANNIVERSARY", "GENDER", "PRODID", "REV", "UID"}

Count(c, n) == Cardinality({i \in 1..Len(c) : c[i].name = n})

ParseNone == [tag |-> "", err |-> "", payload |-> ""]

ParseOk == [tag |-> "Ok", err |-> "", payload |-> ""]

ParseErr(e, p) == [tag |-> "Err", err |-> e, payload |-> p]

\* ExpectVersion: the line after BEGIN:VCARD must be VERSION:4.0.
expect_version_any(line) ==
    IF line.name = "VERSION" THEN ParseOk ELSE ParseErr("VersionMisplaced", "")

expect_version(line) ==
    IF line = VersionLine THEN ParseOk ELSE ParseErr("VersionMisplaced", "")

\* The card-level validation at END:VCARD, in the order of the rules: the
\* at-most-once properties, the formatted name, then MEMBER and KIND.
validate_member_after_kind(c) ==
    IF \E n \in AtMostOnceNames : Count(c, n) > 1
    THEN ParseErr("OnlyOnce", CHOOSE n \in AtMostOnceNames : Count(c, n) > 1)
    ELSE IF Count(c, "FN") = 0 THEN ParseErr("NoFormattedName", "")
    ELSE IF \E i \in 1..Len(c) :
               /\ c[i].name = "MEMBER"
               /\ \E j \in 1..(i - 1) : c[j].name = "KIND" /\ c[j].value # "group"
    THEN ParseErr("MemberRequiresGroup", "")
    ELSE ParseOk

validate(c) ==
    IF \E n \in AtMostOnceNames : Count(c, n) > 1
    THEN ParseErr("OnlyOnce", CHOOSE n \in AtMostOnceNames : Count(c, n) > 1)
    ELSE IF Count(c, "FN") = 0 THEN ParseErr("NoFormattedName", "")
    ELSE IF /\ Count(c, "MEMBER") > 0
            /\ ~\E i \in 1..Len(c) : c[i] = Line("KIND", "group")
    THEN ParseErr("MemberRequiresGroup", "")
    ELSE ParseOk

CardInit ==
    /\ pc = "OutsideCard"
    /\ text = <<>>
    /\ result = ParseNone
    /\ value = <<>>
    /\ shown = <<>>
    /\ hourLimit = 0
    /\ card = <<>>
    /\ cards = <<>>

Fail(line, r) ==
    /\ pc' = "Failed"
    /\ result' = r
    /\ text' = Append(text, line)
    /\ UNCHANGED <<value, shown, hourLimit, card, cards>>

\* OutsideCard: blank lines are skipped, BEGIN:VCARD opens a card, any
\* other line is an incorrect token.
ReadOutside ==
    /\ pc = "OutsideCard"
    /\ Len(text) < MaxLines
    /\ \E line \in CardLines \cup {BlankLine} :
          IF line = BlankLine
          THEN /\ text' = Append(text, line)
               /\ UNCHANGED <<pc, result, value, shown, hourLimit, card, cards>>
          ELSE IF line = BeginLine
          THEN /\ pc' = "ExpectVersion"
               /\ text' = Append(text, line)
               /\ card' = <<>>
               /\ UNCHANGED <<result, value, shown, hourLimit, cards>>
          ELSE Fail(line, ParseErr("IncorrectToken", line.name))

\* ExpectVersion: the next line must be VERSION:4.0.
ReadVersion ==
    /\ pc = "ExpectVersion"
    /\ Len(text) < MaxLines
    /\ \E line \in CardLines :
          IF expect_version(line).tag = "Ok"
          THEN /\ pc' = "InCard"
               /\ text' = Append(text, line)
               /\ UNCHANGED <<result, value, shown, hourLimit, card, cards>>
          ELSE Fail(line, expect_version(line))

\* InCard: END:VCARD validates and emits the card, a second BEGIN:VCARD or
\* VERSION fails, any other property joins the card.
ReadInCard ==
    /\ pc = "InCard"
    /\ Len(text) < MaxLines
    /\ \E line \in CardLines :
          IF line = EndLine
          THEN IF validate(card).tag = "Ok"
               THEN /\ pc' = "OutsideCard"
                    /\ text' = Append(text, line)
                    /\ cards' = Append(cards, card)
                    /\ card' = <<>>
                    /\ UNCHANGED <<result, value, shown, hourLimit>>
               ELSE Fail(line, validate(card))
          ELSE IF line = BeginLine THEN Fail(line, ParseErr("IncorrectToken", line.name))
          ELSE IF line.name = "VERSION" THEN Fail(line, ParseErr("VersionMisplaced", ""))
          ELSE /\ card' = Append(card, line)
               /\ text' = Append(text, line)
               /\ UNCHANGED <<pc, result, value, shown, hourLimit, cards>>

\* End of input: the cards are returned outside a card, a token is missing
\* inside one.
ReadEof ==
    /\ pc \in {"OutsideCard", "ExpectVersion", "InCard"}
    /\ IF pc = "OutsideCard"
       THEN pc' = "Done" /\ result' = ParseOk
       ELSE pc' = "Failed" /\ result' = ParseErr("TokenExpected", "")
    /\ UNCHANGED <<text, value, shown, hourLimit, card, cards>>

CardNext == ReadOutside \/ ReadVersion \/ ReadInCard \/ ReadEof

SpecCard == CardInit /\ [][CardNext]_vars

(***************************************************************************)
(* Properties of the card assembler.                                       *)
(***************************************************************************)
\* The lines of the input that are not blank.
NonBlank(ls) == SelectSeq(ls, LAMBDA l : l # BlankLine)

\* The lines after a leading BEGIN:VCARD (all lines when there is none).
AfterBegin(ls) == IF ls # <<>> /\ Head(ls) = BeginLine THEN Tail(ls) ELSE ls

Finished == pc \in {"Done", "Failed"}

\* C11 as stated: every input whose first property other than BEGIN:VCARD
\* is not VERSION:4.0 fails with VersionMisplaced, also when the input does
\* not start with BEGIN:VCARD or ends right after it.
C11_Original ==
    (/\ Finished
     /\ NonBlank(text) # <<>>
     /\ \/ AfterBegin(NonBlank(text)) = <<>>
        \/ Head(AfterBegin(NonBlank(text))) # VersionLine)
        => (result.tag = "Err" /\ result.err = "VersionMisplaced")

\* C11: an input whose first non-blank line is BEGIN:VCARD and whose next
\* line is not VERSION:4.0 fails with VersionMisplaced; an input whose first
\* non-blank line is not BEGIN:VCARD fails with IncorrectToken; an input that
\* ends right after BEGIN:VCARD fails with TokenExpected.
C11_VersionPlacement ==
    (Finished /\ NonBlank(text) # <<>>) =>
        LET ls == NonBlank(text)
        IN /\ (Head(ls) = BeginLine /\ Len(ls) >= 2 /\ ls[2] # VersionLine) =>
                 (result.tag = "Err" /\ result.err = "VersionMisplaced" /\ cards = <<>>)
           /\ (Head(ls) # BeginLine) =>
                 (result.tag = "Err" /\ result.err = "IncorrectToken")
           /\ (ls = <<BeginLine>>) =>
                 (result.tag = "Err" /\ result.err = "TokenExpected")

C11_Witness ==
    /\ pc = "Failed"
    /\ text = <<BlankLine, BeginLine, Line("VERSION", "3.0")>>
    /\ result.err = "VersionMisplaced"

\* The step that reads END:VCARD inside a card.
ReadsEnd == pc = "InCard" /\ text' = Append(text, EndLine)

HasMember(c) == \E i \in 1..Len(c) : c[i].name = "MEMBER"

HasKindGroup(c) == \E i \in 1..Len(c) : c[i].name = "KIND" /\ c[i].value = "group"

\* The card repeats no at-most-once property and has exactly one FN.
OtherRulesSatisfied(c) ==
    /\ \A n \in AtMostOnceNames : Count(c, n) <= 1
    /\ Count(c, "FN") = 1

\* C12 as stated: a card with a MEMBER and no KIND equal to group fails at
\* END:VCARD with MemberRequiresGroup, whatever other card-level rules the
\* card violates.
C12_Original ==
    [][(ReadsEnd /\ HasMember(card) /\ ~HasKindGroup(card)) =>
          (pc' = "Failed" /\ result'.err = "MemberRequiresGroup")]_vars

\* C12: a card with a MEMBER and no KIND equal to group that repeats no
\* at-most-once property and has one FN fails at END:VCARD with
\* MemberRequiresGroup, whatever the order of KIND and MEMBER; a card that
\* lacks FN fails with NoFormattedName and one that repeats an at-most-once
\* property with OnlyOnce; with KIND:group and the other rules satisfied the
\* card is emitted.
C12_MemberRequiresGroup ==
    [][ReadsEnd =>
          /\ (HasMember(card) /\ ~HasKindGroup(card) /\ OtherRulesSatisfied(card)) =>
                (pc' = "Failed" /\ result'.err = "MemberRequiresGroup" /\ cards' = cards)
          /\ (HasMember(card) /\ (\A n \in AtMostOnceNames : Count(card, n) <= 1)
                 /\ Count(card, "FN") = 0) =>
                (pc' = "Failed" /\ result'.err = "NoFormattedName")
          /\ (HasMember(card) /\ \E n \in AtMostOnceNames : Count(card, n) > 1) =>
                (pc' = "Failed" /\ result'.err = "OnlyOnce")
          /\ (HasMember(card) /\ HasKindGroup(card) /\ OtherRulesSatisfied(card)) =>
                (pc' = "OutsideCard" /\ cards' = Append(cards, card))]_vars

C12_Witness ==
    /\ pc = "Failed"
    /\ card = <<Line("FN", "x"), Line("MEMBER", "urn:uuid:abc"), Line("KIND", "individual")>>
    /\ text[Len(text)] = EndLine
    /\ result.err = "MemberRequiresGroup"

(***************************************************************************)
(* Outcomes of UtcOffsetProperty::from_str.                                *)
(***************************************************************************)
\* C13: from_str returns Ok or Err for every input string and never
\* panics, also for a 5-byte input that starts with a multi-byte character.
C13_NeverPanics ==
    pc = "parsed" => result.tag \in {"Ok", "Err"}

\* The field of two bytes starting at byte i (1-based) is an integer: an
\* optional sign followed by digits, at least one digit.
IsIntegerField(s, i) ==
    \/ s[i] \in Digits /\ s[i + 1] \in Digits
    \/ s[i] \in {"+", "-"} /\ s[i + 1] \in Digits

\* C14: from_str fails with InvalidUtcOffset carrying the whole input exactly
\* when the input is not 5 bytes long or its first character is neither '+'
\* nor '-'; every other rejection is the integer-parse error of a field that
\* is not an integer or the component-range error of a field out of range.
C14_ErrorKinds ==
    pc = "parsed" =>
        LET malformed == Len(text) # 5 \/ text[1] \notin {"+", "-"}
        IN /\ malformed <=>
                 (result.tag = "Err" /\ result.err = "InvalidUtcOffset" /\ result.payload = text)
           /\ (~malformed /\ ~(IsIntegerField(text, 2) /\ IsIntegerField(text, 4))) =>
                 (result.tag = "Err" /\ result.err = "ParseInt")
           /\ (~malformed /\ result.tag # "Ok"
                  /\ IsIntegerField(text, 2) /\ IsIntegerField(text, 4)) =>
                 (result.tag = "Err" /\ result.err = "ComponentRange")

\* The error kinds on the inputs for which from_str returns a Result.
C14_ErrorKindsOfResults ==
    (pc = "parsed" /\ result.tag # "Panic") => C14_ErrorKinds

====
